---- MODULE Spec2Model ----
(***************************************************************************)
(* Owner-authorization state machine of the auction-house contract         *)
(* (src/src/contract.rs): instantiate and the four privileged exec         *)
(* operations, over the persisted store (contract_info, OWNERS, AUCTIONS). *)
(*                                                                         *)
(* Every handler is modelled as a pure operator from (storage, arguments)  *)
(* to an outcome [result, storage, messages, attributes, writes]; the      *)
(* actions apply one handler to the current storage and record the call.   *)
(* The storage is the deps.storage the handler is given and leaves behind  *)
(* (the host's commit/rollback of a failed transaction is outside the      *)
(* file); `writes` lists the keys the call saved, in order.                *)
(***************************************************************************)
EXTENDS Integers, Sequences, FiniteSets, TLC

\* ------------------------------------------------------------------ bounds
\* number of distinct well-formed addresses callers and arguments range over
NumValid == 3
\* number of distinct malformed addresses
NumMalformed == 1
\* largest amount of one reward coin
MaxAmount == 1
\* largest number of rewards records in one host response
MaxRecords == 2
\* largest number of coins in one rewards record
MaxRewards == 1

\* ------------------------------------------------------------- addresses
\* An address is an integer: the positive ones are those the host's address
\* validator accepts, the others are malformed strings.
ValidAddrs == 1..NumValid
MalformedAddrs == {0 - i : i \in 1..NumMalformed}
Addrs == ValidAddrs \cup MalformedAddrs

\* deps.api.addr_validate(&a.into_string()): TRUE iff validation succeeds
\* (on success the address is returned as given, on failure the `?`
\* returns the error to the caller)
addr_validate(a) == a \in ValidAddrs

\* --------------------------------------------------------------- storage
\* A stored item, like an optional argument, is an option: None when the key
\* was never saved (the argument is not taken), Some(v) when it holds v.
None == <<>>
Some(v) == <<v>>
Get(opt) == opt[1]

\* set_contract_version's record: (CONTRACT_NAME, CONTRACT_VERSION)
CONTRACT_NAME == "CARGO_PKG_NAME"
CONTRACT_VERSION == "CARGO_PKG_VERSION"
ContractInfo == [contract |-> CONTRACT_NAME, version |-> CONTRACT_VERSION]

\* Item::load: fails with NotFound when the key was never saved, else
\* returns the stored value Get(item)
load_ok(item) == item # None

\* variant: only the first entry (the deployer) counts as a member
contains_first_only(owners, a) == Len(owners) > 0 /\ owners[1] = a

\* Vec::contains
contains(owners, a) == \E i \in 1..Len(owners) : owners[i] = a

\* variant: the new entry is inserted at the front
push_front(owners, a) == <<a>> \o owners

\* Vec::push
push(owners, a) == Append(owners, a)

\* variant: the predicate of retain is inverted (keeps the matching entries)
RECURSIVE retain_inverted(_, _)
retain_inverted(owners, old_owner) ==
  IF owners = <<>> THEN <<>>
  ELSE IF Head(owners) = old_owner
       THEN <<Head(owners)>> \o retain_inverted(Tail(owners), old_owner)
       ELSE retain_inverted(Tail(owners), old_owner)

\* Vec::retain(|value| value.to_string() != old_owner.to_string()):
\* keeps, in order, the entries that differ from old_owner
RECURSIVE retain(_, _)
retain(owners, old_owner) ==
  IF owners = <<>> THEN <<>>
  ELSE IF Head(owners) # old_owner
       THEN <<Head(owners)>> \o retain(Tail(owners), old_owner)
       ELSE retain(Tail(owners), old_owner)

\* Vec::is_empty
is_empty(owners) == Len(owners) = 0

\* ------------------------------------------------------------- outcomes
\* Err(e): the handler returns early; the storage is as the handler left it
Err(e, store, writes) ==
  [result |-> e, storage |-> store, messages |-> <<>>, attributes |-> <<>>,
   writes |-> writes, data |-> None]

\* Ok(Response): messages and attributes of the response
Ok(store, messages, attributes, writes) ==
  [result |-> "Ok", storage |-> store, messages |-> messages,
   attributes |-> attributes, writes |-> writes, data |-> None]

\* Ok(response) of a query: a query is given Deps, which cannot write the
\* store, and returns data instead of a Response
QueryOk(store, data) ==
  [result |-> "Ok", storage |-> store, messages |-> <<>>, attributes |-> <<>>,
   writes |-> <<>>, data |-> Some(data)]

\* ArchwayMsg::update_rewards_address(rewards_address)
MsgUpdateRewardsAddress(rewards_address) ==
  [kind |-> "update_rewards_address", rewards_address |-> rewards_address]

\* the limit withdraw_rewards passes to withdraw_rewards_by_limit
WithdrawLimit == 0

\* ArchwayMsg::withdraw_rewards_by_limit(limit)
MsgWithdrawRewardsByLimit(limit) ==
  [kind |-> "withdraw_rewards", records_limit |-> limit]

\* ------------------------------------------------------------ instantiate
instantiate(store, sender) ==
  LET s1 == [store EXCEPT !.contract_info = Some(ContractInfo)]
      w1 == <<"contract_info">>
  IN IF ~addr_validate(sender) THEN Err("InvalidAddress", s1, w1)
     ELSE IF ~load_ok(s1.owners) THEN Err("NotFound", s1, w1)
     ELSE LET owners == push(Get(s1.owners), sender)
              s2 == [s1 EXCEPT !.owners = Some(owners)]
              s3 == [s2 EXCEPT !.auctions = Some(<<>>)]
          IN Ok(s3, <<>>,
                << <<"action", "Instantiating Action House">>,
                   <<"Owner", sender>> >>,
                <<"contract_info", "owners", "auctions">>)

\* ------------------------------------------------------------------ exec
\* variant: the membership check of update_rewards_address is missing
update_rewards_address_no_auth(store, sender, rewards_address) ==
  IF ~addr_validate(sender) THEN Err("InvalidAddress", store, <<>>)
  ELSE IF ~load_ok(store.owners) THEN Err("NotFound", store, <<>>)
  ELSE Ok(store, <<MsgUpdateRewardsAddress(rewards_address)>>,
          << <<"method", "update_rewards_address">> >>, <<>>)

\* variant: the message carries the caller instead of the supplied address
update_rewards_address_to_sender(store, sender, rewards_address) ==
  IF ~addr_validate(sender) THEN Err("InvalidAddress", store, <<>>)
  ELSE IF ~load_ok(store.owners) THEN Err("NotFound", store, <<>>)
  ELSE IF ~contains(Get(store.owners), sender) THEN Err("Unauthorized", store, <<>>)
  ELSE Ok(store, <<MsgUpdateRewardsAddress(sender)>>,
          << <<"method", "update_rewards_address">> >>, <<>>)

update_rewards_address(store, sender, rewards_address) ==
  IF ~addr_validate(sender) THEN Err("InvalidAddress", store, <<>>)
  ELSE IF ~load_ok(store.owners) THEN Err("NotFound", store, <<>>)
  ELSE IF ~contains(Get(store.owners), sender) THEN Err("Unauthorized", store, <<>>)
  ELSE Ok(store, <<MsgUpdateRewardsAddress(rewards_address)>>,
          << <<"method", "update_rewards_address">> >>, <<>>)

\* variant: withdraw_rewards lets any well-formed caller through once the
\* OwnerSet holds an owner
withdraw_rewards_for_any_valid(store, sender) ==
  IF ~addr_validate(sender) THEN Err("InvalidAddress", store, <<>>)
  ELSE IF ~load_ok(store.owners) THEN Err("NotFound", store, <<>>)
  ELSE IF is_empty(Get(store.owners)) THEN Err("Unauthorized", store, <<>>)
  ELSE Ok(store, <<MsgWithdrawRewardsByLimit(WithdrawLimit)>>,
          << <<"method", "withdraw_rewards">> >>, <<>>)

\* variant: withdraw_rewards asks for one record only
withdraw_rewards_limit_one(store, sender) ==
  IF ~addr_validate(sender) THEN Err("InvalidAddress", store, <<>>)
  ELSE IF ~load_ok(store.owners) THEN Err("NotFound", store, <<>>)
  ELSE IF ~contains(Get(store.owners), sender) THEN Err("Unauthorized", store, <<>>)
  ELSE Ok(store, <<MsgWithdrawRewardsByLimit(WithdrawLimit + 1)>>,
          << <<"method", "withdraw_rewards">> >>, <<>>)

withdraw_rewards(store, sender) ==
  IF ~addr_validate(sender) THEN Err("InvalidAddress", store, <<>>)
  ELSE IF ~load_ok(store.owners) THEN Err("NotFound", store, <<>>)
  ELSE IF ~contains(Get(store.owners), sender) THEN Err("Unauthorized", store, <<>>)
  ELSE Ok(store, <<MsgWithdrawRewardsByLimit(WithdrawLimit)>>,
          << <<"method", "withdraw_rewards">> >>, <<>>)

\* variant: the membership check of add_owner is missing
add_owner_no_auth(store, sender, new_owner) ==
  IF ~addr_validate(sender) THEN Err("InvalidAddress", store, <<>>)
  ELSE IF ~addr_validate(new_owner) THEN Err("InvalidAddress", store, <<>>)
  ELSE IF ~load_ok(store.owners) THEN Err("NotFound", store, <<>>)
  ELSE LET owners == IF ~contains(Get(store.owners), new_owner)
                     THEN push(Get(store.owners), new_owner)
                     ELSE Get(store.owners)
       IN Ok([store EXCEPT !.owners = Some(owners)], <<>>,
             << <<"method", "add_owner">> >>, <<"owners">>)

\* variant: add_owner validates the candidate after the membership check
add_owner_auth_first(store, sender, new_owner) ==
  IF ~addr_validate(sender) THEN Err("InvalidAddress", store, <<>>)
  ELSE IF ~load_ok(store.owners) THEN Err("NotFound", store, <<>>)
  ELSE IF ~contains(Get(store.owners), sender) THEN Err("Unauthorized", store, <<>>)
  ELSE IF ~addr_validate(new_owner) THEN Err("InvalidAddress", store, <<>>)
  ELSE LET owners == IF ~contains(Get(store.owners), new_owner)
                     THEN push(Get(store.owners), new_owner)
                     ELSE Get(store.owners)
       IN Ok([store EXCEPT !.owners = Some(owners)], <<>>,
             << <<"method", "add_owner">> >>, <<"owners">>)

\* variant: add_owner pushes without looking for the candidate
add_owner_always_push(store, sender, new_owner) ==
  IF ~addr_validate(sender) THEN Err("InvalidAddress", store, <<>>)
  ELSE IF ~addr_validate(new_owner) THEN Err("InvalidAddress", store, <<>>)
  ELSE IF ~load_ok(store.owners) THEN Err("NotFound", store, <<>>)
  ELSE IF ~contains(Get(store.owners), sender) THEN Err("Unauthorized", store, <<>>)
  ELSE Ok([store EXCEPT !.owners = Some(push(Get(store.owners), new_owner))],
          <<>>, << <<"method", "add_owner">> >>, <<"owners">>)

\* variant: add_owner rejects a candidate that is already a member
add_owner_rejects_member(store, sender, new_owner) ==
  IF ~addr_validate(sender) THEN Err("InvalidAddress", store, <<>>)
  ELSE IF ~addr_validate(new_owner) THEN Err("InvalidAddress", store, <<>>)
  ELSE IF ~load_ok(store.owners) THEN Err("NotFound", store, <<>>)
  ELSE IF ~contains(Get(store.owners), sender) THEN Err("Unauthorized", store, <<>>)
  ELSE IF contains(Get(store.owners), new_owner)
       THEN Err("AlreadyOwner", store, <<>>)
  ELSE Ok([store EXCEPT !.owners = Some(push(Get(store.owners), new_owner))],
          <<>>, << <<"method", "add_owner">> >>, <<"owners">>)

add_owner(store, sender, new_owner) ==
  IF ~addr_validate(sender) THEN Err("InvalidAddress", store, <<>>)
  ELSE IF ~addr_validate(new_owner) THEN Err("InvalidAddress", store, <<>>)
  ELSE IF ~load_ok(store.owners) THEN Err("NotFound", store, <<>>)
  ELSE IF ~contains(Get(store.owners), sender) THEN Err("Unauthorized", store, <<>>)
  ELSE LET owners == IF ~contains(Get(store.owners), new_owner)
                     THEN push(Get(store.owners), new_owner)
                     ELSE Get(store.owners)
       IN Ok([store EXCEPT !.owners = Some(owners)], <<>>,
             << <<"method", "add_owner">> >>, <<"owners">>)

\* variant: remove_owner deletes the entries of the caller, not of the target
remove_owner_of_sender(store, sender, old_owner) ==
  IF ~addr_validate(sender) THEN Err("InvalidAddress", store, <<>>)
  ELSE IF ~addr_validate(old_owner) THEN Err("InvalidAddress", store, <<>>)
  ELSE IF ~load_ok(store.owners) THEN Err("NotFound", store, <<>>)
  ELSE IF ~contains(Get(store.owners), sender) THEN Err("Unauthorized", store, <<>>)
  ELSE LET owners == retain(Get(store.owners), sender)
       IN IF is_empty(owners) THEN Err("NoOwner", store, <<>>)
          ELSE Ok([store EXCEPT !.owners = Some(owners)], <<>>,
                  << <<"method", "remove_owner">> >>, <<"owners">>)

\* variant: an owner cannot remove an owner that precedes it in the OwnerSet
remove_owner_seniority(store, sender, old_owner) ==
  IF ~addr_validate(sender) THEN Err("InvalidAddress", store, <<>>)
  ELSE IF ~addr_validate(old_owner) THEN Err("InvalidAddress", store, <<>>)
  ELSE IF ~load_ok(store.owners) THEN Err("NotFound", store, <<>>)
  ELSE IF ~contains(Get(store.owners), sender) THEN Err("Unauthorized", store, <<>>)
  ELSE IF \E i, j \in 1..Len(Get(store.owners)) :
            /\ i < j
            /\ Get(store.owners)[i] = old_owner
            /\ Get(store.owners)[j] = sender
       THEN Err("Unauthorized", store, <<>>)
  ELSE LET owners == retain(Get(store.owners), old_owner)
       IN IF is_empty(owners) THEN Err("NoOwner", store, <<>>)
          ELSE Ok([store EXCEPT !.owners = Some(owners)], <<>>,
                  << <<"method", "remove_owner">> >>, <<"owners">>)

\* variant: remove_owner saves without the is_empty check
remove_owner_no_empty_check(store, sender, old_owner) ==
  IF ~addr_validate(sender) THEN Err("InvalidAddress", store, <<>>)
  ELSE IF ~addr_validate(old_owner) THEN Err("InvalidAddress", store, <<>>)
  ELSE IF ~load_ok(store.owners) THEN Err("NotFound", store, <<>>)
  ELSE IF ~contains(Get(store.owners), sender) THEN Err("Unauthorized", store, <<>>)
  ELSE Ok([store EXCEPT !.owners = Some(retain(Get(store.owners), old_owner))],
          <<>>, << <<"method", "remove_owner">> >>, <<"owners">>)

\* variant: remove_owner saves before the is_empty check
remove_owner_save_first(store, sender, old_owner) ==
  IF ~addr_validate(sender) THEN Err("InvalidAddress", store, <<>>)
  ELSE IF ~addr_validate(old_owner) THEN Err("InvalidAddress", store, <<>>)
  ELSE IF ~load_ok(store.owners) THEN Err("NotFound", store, <<>>)
  ELSE IF ~contains(Get(store.owners), sender) THEN Err("Unauthorized", store, <<>>)
  ELSE LET owners == retain(Get(store.owners), old_owner)
           saved == [store EXCEPT !.owners = Some(owners)]
       IN IF is_empty(owners) THEN Err("NoOwner", saved, <<"owners">>)
          ELSE Ok(saved, <<>>,
                  << <<"method", "remove_owner">> >>, <<"owners">>)

remove_owner(store, sender, old_owner) ==
  IF ~addr_validate(sender) THEN Err("InvalidAddress", store, <<>>)
  ELSE IF ~addr_validate(old_owner) THEN Err("InvalidAddress", store, <<>>)
  ELSE IF ~load_ok(store.owners) THEN Err("NotFound", store, <<>>)
  ELSE IF ~contains(Get(store.owners), sender) THEN Err("Unauthorized", store, <<>>)
  ELSE LET owners == retain(Get(store.owners), old_owner)
       IN IF is_empty(owners) THEN Err("NoOwner", store, <<>>)
          ELSE Ok([store EXCEPT !.owners = Some(owners)], <<>>,
                  << <<"method", "remove_owner">> >>, <<"owners">>)

\* ----------------------------------------------------------------- query
\* A reply of the host's querier is an option: None when the query fails
\* (the `?` returns the error), Some(response) otherwise.

\* variant: open_auctions loads the owners instead of the auctions
open_auctions_of_owners(store) ==
  IF ~load_ok(store.owners) THEN Err("NotFound", store, <<>>)
  ELSE QueryOk(store, [auctions |-> Get(store.owners)])

open_auctions(store) ==
  IF ~load_ok(store.auctions) THEN Err("NotFound", store, <<>>)
  ELSE QueryOk(store, [auctions |-> Get(store.auctions)])

\* deps.querier.query(&req): the host's reply is passed through
contract_metadata(store, reply) ==
  IF reply = None THEN Err("QueryError", store, <<>>)
  ELSE QueryOk(store, Get(reply))

\* records.iter().flat_map(|r| r.rewards.iter().cloned()).collect()
RECURSIVE flat_map_rewards(_)
flat_map_rewards(records) ==
  IF records = <<>> THEN <<>>
  ELSE Head(records).rewards \o flat_map_rewards(Tail(records))

\* NativeBalance::normalize, first step: retain(|c| !c.amount.is_zero())
non_zero(c) == c.amount # 0
drop_zeros(coins) == SelectSeq(coins, non_zero)

\* NativeBalance::normalize, second step: sort by denom
RECURSIVE insert_by_denom(_, _)
insert_by_denom(sorted, c) ==
  IF sorted = <<>> THEN <<c>>
  ELSE IF c.denom <= Head(sorted).denom THEN <<c>> \o sorted
  ELSE <<Head(sorted)>> \o insert_by_denom(Tail(sorted), c)

RECURSIVE sort_by_denom(_)
sort_by_denom(coins) ==
  IF coins = <<>> THEN <<>>
  ELSE insert_by_denom(sort_by_denom(Tail(coins)), Head(coins))

\* variant: an entry with the denomination of its predecessor is removed
\* without being added to it
RECURSIVE merge_dups_dropping(_)
merge_dups_dropping(coins) ==
  IF Len(coins) <= 1 THEN coins
  ELSE LET rest == merge_dups_dropping(Tail(coins))
       IN IF Head(coins).denom = Head(rest).denom
          THEN <<Head(coins)>> \o Tail(rest)
          ELSE <<Head(coins)>> \o rest

\* NativeBalance::normalize, third step: from the last entry to the first,
\* an entry with the denomination of its predecessor is added to the
\* predecessor and removed
RECURSIVE merge_dups(_)
merge_dups(coins) ==
  IF Len(coins) <= 1 THEN coins
  ELSE LET rest == merge_dups(Tail(coins))
       IN IF Head(coins).denom = Head(rest).denom
          THEN <<[denom |-> Head(coins).denom,
                  amount |-> Head(coins).amount + Head(rest).amount]>>
               \o Tail(rest)
          ELSE <<Head(coins)>> \o rest

\* NativeBalance::normalize
normalize(coins) == merge_dups(sort_by_denom(drop_zeros(coins)))

\* response.pagination.and_then(|p| p.total).unwrap_or(0)
total_or_zero(pagination) ==
  IF pagination = None THEN 0
  ELSE IF Get(pagination).total = None THEN 0
  ELSE Get(Get(pagination).total)

outstanding_rewards(store, reply) ==
  IF reply = None THEN Err("QueryError", store, <<>>)
  ELSE LET response == Get(reply)
           rewards_coins == flat_map_rewards(response.records)
           rewards_balance == normalize(rewards_coins)
           total_records == total_or_zero(response.pagination)
       IN QueryOk(store, [rewards_balance |-> rewards_balance,
                          total_records |-> total_records])

\* ----------------------------------------------------------------- state
VARIABLES
  storage,       \* deps.storage: [contract_info, owners, auctions]
  deployer,      \* Some(sender) of the instantiate call that returned Ok
  removed,       \* the addresses a successful remove_owner has deleted from
                 \* the OwnerSet and no successful add_owner has named since
  prev,          \* the storage the last call was given
  last           \* the last call: op, sender, arg, the host's reply to the
                 \* query it made, and its outcome

vars == <<storage, deployer, removed, prev, last>>

\* The OWNERS record before the first call: absent (a fresh store), or
\* created empty by the crate's code outside contract.rs.
PreOwners == {None, Some(<<>>)}

NoCall ==
  [op |-> "none", sender |-> None, arg |-> None, host |-> None,
   result |-> "none", messages |-> <<>>, attributes |-> <<>>,
   writes |-> <<>>, data |-> None]

Init ==
  /\ \E o \in PreOwners :
       storage = [contract_info |-> None, owners |-> o, auctions |-> None]
  /\ deployer = None
  /\ removed = {}
  /\ prev = storage
  /\ last = NoCall

\* one call of a handler: the storage becomes what the handler left, and the
\* call is recorded
Call(op, sender, arg, out) ==
  /\ prev' = storage
  /\ storage' = out.storage
  /\ last' = [op |-> op, sender |-> Some(sender), arg |-> arg, host |-> None,
              result |-> out.result, messages |-> out.messages,
              attributes |-> out.attributes, writes |-> out.writes,
              data |-> out.data]

\* one call of a query: it takes no caller; host is the reply of the host's
\* querier to the request the query makes (None when it makes none)
Query(op, host, out) ==
  /\ prev' = storage
  /\ storage' = out.storage
  /\ last' = [op |-> op, sender |-> None, arg |-> None, host |-> host,
              result |-> out.result, messages |-> out.messages,
              attributes |-> out.attributes, writes |-> out.writes,
              data |-> out.data]
  /\ UNCHANGED <<deployer, removed>>

\* instantiate runs until it has succeeded once (the host prevents any
\* later invocation)
Instantiate(sender) ==
  /\ deployer = None
  /\ LET out == instantiate(storage, sender)
     IN /\ Call("instantiate", sender, None, out)
        /\ deployer' = IF out.result = "Ok" THEN Some(sender) ELSE None
  /\ UNCHANGED removed

UpdateRewardsAddress(sender, rewards_address) ==
  /\ Call("update_rewards_address", sender, Some(rewards_address),
          update_rewards_address(storage, sender, rewards_address))
  /\ UNCHANGED <<deployer, removed>>

WithdrawRewards(sender) ==
  /\ Call("withdraw_rewards", sender, None, withdraw_rewards(storage, sender))
  /\ UNCHANGED <<deployer, removed>>

AddOwner(sender, new_owner) ==
  /\ LET out == add_owner(storage, sender, new_owner)
     IN /\ Call("add_owner", sender, Some(new_owner), out)
        /\ removed' = IF out.result = "Ok" THEN removed \ {new_owner}
                      ELSE removed
  /\ UNCHANGED deployer

RemoveOwner(sender, old_owner) ==
  /\ LET out == remove_owner(storage, sender, old_owner)
     IN /\ Call("remove_owner", sender, Some(old_owner), out)
        /\ removed' = IF out.result = "Ok"
                         /\ contains(Get(storage.owners), old_owner)
                      THEN removed \cup {old_owner}
                      ELSE removed
  /\ UNCHANGED deployer

\* ---- replies of the host
\* ContractMetadataResponse { owner_address, rewards_address }
MetadataReplies ==
  {None} \cup {Some([owner_address |-> o, rewards_address |-> o]) :
                 o \in ValidAddrs}

\* sequences over S of length at most n
SeqUpTo(S, n) == UNION {[1..k -> S] : k \in 0..n}

\* Coin { denom, amount }: the denominations, in the order of their names
Denoms == {1, 2}
Coins == [denom : Denoms, amount : 0..MaxAmount]

\* RewardsRecord { rewards, .. } of at most k coins
RewardsRecords(k) == [rewards : SeqUpTo(Coins, k)]

\* Option<PageResponse { total: Option<u64>, .. }> of a response of n records
Paginations(n) ==
  {None, Some([total |-> None])} \cup
  {Some([total |-> Some(t)]) : t \in {n, n + 1}}

\* RewardsRecordsResponse { records, pagination }
RewardsResponse(recs, p) == Some([records |-> recs, pagination |-> p])

\* the replies to the rewards query that the calls interleaved with the
\* other operations range over: the failure of the query, and the responses
\* of at most one record of at most one coin
RewardsSample ==
  {None} \cup
  UNION {{RewardsResponse(recs, p) : p \in Paginations(Len(recs))} :
           recs \in SeqUpTo(RewardsRecords(1), 1)}

OpenAuctions == Query("open_auctions", None, open_auctions(storage))

ContractMetadata(reply) ==
  Query("contract_metadata", Some(reply), contract_metadata(storage, reply))

OutstandingRewards(reply) ==
  Query("outstanding_rewards", Some(reply),
        outstanding_rewards(storage, reply))

Next ==
  \/ \E sender \in Addrs : Instantiate(sender)
  \/ \E sender \in Addrs, a \in Addrs : UpdateRewardsAddress(sender, a)
  \/ \E sender \in Addrs : WithdrawRewards(sender)
  \/ \E sender \in Addrs, a \in Addrs : AddOwner(sender, a)
  \/ \E sender \in Addrs, a \in Addrs : RemoveOwner(sender, a)
  \/ OpenAuctions
  \/ \E reply \in MetadataReplies : ContractMetadata(reply)
  \/ \E reply \in RewardsSample : OutstandingRewards(reply)

Spec == Init /\ [][Next]_vars

\* The rewards query alone, as the first call, over every host reply within
\* the bounds.
NextRewards ==
  /\ last = NoCall
  /\ \/ OutstandingRewards(None)
     \/ \E n \in 0..MaxRecords :
          \E recs \in [1..n -> RewardsRecords(MaxRewards)],
             p \in Paginations(n) :
            OutstandingRewards(RewardsResponse(recs, p))

InitRewards == Init /\ storage.owners = None

SpecRewards == InitRewards /\ [][NextRewards]_vars

\* --------------------------------------------------------------- helpers
\* a call of instantiate has returned Ok
instantiated == deployer # None

\* the persisted OwnerSet exists
HasOwners(store) == store.owners # None

\* the persisted OwnerSet of a store that has one
Owners(store) == Get(store.owners)

\* a is a member of the persisted OwnerSet of store
Member(store, a) == HasOwners(store) /\ contains(Owners(store), a)

\* the caller and the second address of the last call
Sender == Get(last.sender)
Arg == Get(last.arg)

Privileged == {"update_rewards_address", "withdraw_rewards", "add_owner",
               "remove_owner"}

Queries == {"open_auctions", "contract_metadata", "outstanding_rewards"}

\* sequences without repetition over the well-formed addresses
NoDup(seq) == \A i, j \in 1..Len(seq) : seq[i] = seq[j] => i = j

TypeOK ==
  /\ HasOwners(storage) =>
       /\ Len(Owners(storage)) <= NumValid
       /\ \A i \in 1..Len(Owners(storage)) : Owners(storage)[i] \in ValidAddrs
  /\ storage.auctions \in {None, Some(<<>>)}
  /\ storage.contract_info \in {None, Some(ContractInfo)}
  /\ deployer \in {None} \cup {Some(a) : a \in ValidAddrs}
  /\ removed \subseteq ValidAddrs
  /\ last.op \in Privileged \cup Queries \cup {"none", "instantiate"}

\* ---------------------------------------------------------------- claims
\* what a call left of the two persisted collections
OwnersUnchanged == storage.owners = prev.owners
AuctionsUnchanged == storage.auctions = prev.auctions

\* C1: after a successful instantiate, whatever privileged calls follow
\* (by any caller, with any argument, succeeding or failing), the persisted
\* OwnerSet exists and is not empty.
C1_OwnerSetNeverEmpty ==
  instantiated => (HasOwners(storage) /\ Len(Owners(storage)) > 0)

\* a successful removal has shrunk the OwnerSet to its last member
C1_Witness ==
  /\ instantiated
  /\ last.op = "remove_owner" /\ last.result = "Ok"
  /\ Len(Owners(prev)) = 2 /\ Len(Owners(storage)) = 1

\* C2: in every reachable state the persisted OwnerSet holds each address
\* at most once.
C2_NoDuplicateOwners ==
  HasOwners(storage) => NoDup(Owners(storage))

\* add_owner has succeeded with a candidate that was already a member, and
\* the OwnerSet holds several owners
C2_Witness ==
  /\ last.op = "add_owner" /\ last.result = "Ok"
  /\ Member(prev, Arg)
  /\ Len(Owners(storage)) >= 2

\* the last call: a privileged operation whose caller was not a member of
\* the OwnerSet persisted at the time of the call
NonMemberCall ==
  /\ last.op \in Privileged
  /\ HasOwners(prev)
  /\ ~Member(prev, Sender)

\* the second address of add_owner and remove_owner
HasSecondAddress == last.op \in {"add_owner", "remove_owner"}

\* C3 as stated: on an instantiated contract, every privileged call by a
\* non-member fails with Unauthorized, leaves OwnerSet and OpenAuctions
\* unchanged and emits no outbound message.
C3_NonMemberUnauthorized ==
  (instantiated /\ NonMemberCall) =>
    /\ last.result = "Unauthorized"
    /\ OwnersUnchanged /\ AuctionsUnchanged
    /\ last.messages = <<>>

\* C3 as amended: a privileged call by a non-member never succeeds, leaves
\* OwnerSet and OpenAuctions unchanged and emits no outbound message; it
\* fails with Unauthorized when the caller, and the second address of
\* add_owner and remove_owner, are well-formed, and with InvalidAddress
\* otherwise.
C3_NonMemberRejected ==
  NonMemberCall =>
    /\ OwnersUnchanged /\ AuctionsUnchanged
    /\ last.messages = <<>>
    /\ last.result =
         IF addr_validate(Sender) /\ (HasSecondAddress => addr_validate(Arg))
         THEN "Unauthorized" ELSE "InvalidAddress"

\* a well-formed non-member has called a privileged operation of an
\* instantiated contract and was refused
C3_Witness ==
  /\ instantiated
  /\ NonMemberCall
  /\ addr_validate(Sender)
  /\ last.result = "Unauthorized"

\* C4: instantiate with a well-formed deployer on a fresh contract (no
\* OwnerSet record persisted yet) succeeds and leaves OwnerSet = [deployer]
\* and OpenAuctions = [].
C4_InstantiateFresh ==
  (/\ last.op = "instantiate"
   /\ addr_validate(Sender)
   /\ ~HasOwners(prev))
  => /\ last.result = "Ok"
     /\ storage.owners = Some(<<Sender>>)
     /\ storage.auctions = Some(<<>>)

\* C5: remove_owner by a member, with a target whose removal would leave
\* the OwnerSet empty (every entry is the target), fails with NoOwner and
\* the persisted OwnerSet is what it was before the call.
C5_LastOwnerRemovalRejected ==
  (/\ last.op = "remove_owner"
   /\ Member(prev, Sender)
   /\ \A i \in 1..Len(Owners(prev)) : Owners(prev)[i] = Arg)
  => /\ last.result = "NoOwner"
     /\ OwnersUnchanged

\* the only owner has tried to remove itself
C5_Witness ==
  /\ last.op = "remove_owner"
  /\ HasOwners(prev) /\ Owners(prev) = <<Sender>> /\ Arg = Sender
  /\ last.result = "NoOwner"

\* C6: add_owner by a member with a candidate that is already a member
\* succeeds and leaves the persisted OwnerSet unchanged; and from every
\* reachable state, a successful add_owner applied a second time with the
\* same caller and candidate succeeds and yields the OwnerSet of the first.
C6_AddOwnerIdempotent ==
  /\ (/\ last.op = "add_owner"
      /\ Member(prev, Sender)
      /\ Member(prev, Arg))
     => (last.result = "Ok" /\ OwnersUnchanged)
  /\ \A c \in Addrs, x \in Addrs :
       LET once == add_owner(storage, c, x)
           twice == add_owner(once.storage, c, x)
       IN once.result = "Ok" =>
            (twice.result = "Ok" /\ twice.storage.owners = once.storage.owners)

\* a member has re-added another member of a set of several owners
C6_Witness ==
  /\ last.op = "add_owner" /\ last.result = "Ok"
  /\ Member(prev, Sender) /\ Member(prev, Arg) /\ Arg # Sender
  /\ OwnersUnchanged

\* C7: remove_owner by a member with a well-formed target that is not a
\* member succeeds and leaves the persisted OwnerSet unchanged.
C7_RemoveNonMemberNoOp ==
  (/\ last.op = "remove_owner"
   /\ Member(prev, Sender)
   /\ addr_validate(Arg)
   /\ ~Member(prev, Arg))
  => (last.result = "Ok" /\ OwnersUnchanged)

\* a member of a set of several owners has removed a non-member
C7_Witness ==
  /\ last.op = "remove_owner" /\ last.result = "Ok"
  /\ Member(prev, Sender) /\ addr_validate(Arg) /\ ~Member(prev, Arg)
  /\ Len(Owners(prev)) >= 2

\* C8: an owner added by add_owner has the deployer's privileges from the
\* next call on.  (1) Right after instantiate(D) has succeeded,
\* add_owner(D, A) with a well-formed A # D succeeds and leaves OwnerSet =
\* [D, A].  (2) Right after that add_owner, remove_owner(A, D) succeeds and
\* leaves OwnerSet = [A].
C8_Step ==
  /\ (/\ last.op = "instantiate" /\ last.result = "Ok"
      /\ last'.op = "add_owner"
      /\ last'.sender = last.sender
      /\ addr_validate(Get(last'.arg))
      /\ last'.arg # last.sender)
     => /\ last'.result = "Ok"
        /\ storage'.owners = Some(<<Get(last.sender), Get(last'.arg)>>)
  /\ (/\ last.op = "add_owner" /\ last.result = "Ok"
      /\ last.sender = deployer
      /\ prev.owners = Some(<<Get(deployer)>>)
      /\ last.arg # last.sender
      /\ last'.op = "remove_owner"
      /\ last'.sender = last.arg
      /\ last'.arg = last.sender)
     => /\ last'.result = "Ok"
        /\ storage'.owners = Some(<<Get(last.arg)>>)

C8_AddedOwnerHasFullPrivileges == [][C8_Step]_vars

\* the owner the deployer added has removed the deployer
C8_Witness ==
  /\ instantiated
  /\ last.op = "remove_owner" /\ last.result = "Ok"
  /\ last.arg = deployer /\ last.sender # deployer
  /\ prev.owners = Some(<<Get(deployer), Sender>>)
  /\ storage.owners = Some(<<Sender>>)

\* C9: update_rewards_address by a member succeeds, emits exactly one
\* set-reward-address message whose target is the supplied address, and
\* leaves OwnerSet and OpenAuctions unchanged.
C9_UpdateRewardsAddressByMember ==
  (last.op = "update_rewards_address" /\ Member(prev, Sender))
  => /\ last.result = "Ok"
     /\ Len(last.messages) = 1
     /\ last.messages[1].kind = "update_rewards_address"
     /\ last.messages[1].rewards_address = Arg
     /\ OwnersUnchanged /\ AuctionsUnchanged

\* a member has set a payout address other than its own
C9_Witness ==
  /\ last.op = "update_rewards_address" /\ last.result = "Ok"
  /\ Member(prev, Sender) /\ Arg # Sender
  /\ Len(last.messages) = 1

\* C10: withdraw_rewards by a member succeeds, emits exactly one
\* withdraw-rewards message whose record limit is 0 (the value that stands
\* for no limit of the caller's own), and leaves OwnerSet and OpenAuctions
\* unchanged.
C10_WithdrawRewardsByMember ==
  (last.op = "withdraw_rewards" /\ Member(prev, Sender))
  => /\ last.result = "Ok"
     /\ Len(last.messages) = 1
     /\ last.messages[1].kind = "withdraw_rewards"
     /\ last.messages[1].records_limit = 0
     /\ OwnersUnchanged /\ AuctionsUnchanged

\* a member has withdrawn the rewards
C10_Witness ==
  /\ last.op = "withdraw_rewards" /\ last.result = "Ok"
  /\ Member(prev, Sender)
  /\ Len(last.messages) = 1

\* C11, in the case the claim singles out: update_rewards_address called by
\* a member with a malformed target payout address fails with
\* InvalidAddress, emits no set-reward-address message and changes neither
\* OwnerSet nor OpenAuctions.
C11_MalformedTargetRejected ==
  (/\ last.op = "update_rewards_address"
   /\ Member(prev, Sender)
   /\ ~addr_validate(Arg))
  => /\ last.result = "InvalidAddress"
     /\ last.messages = <<>>
     /\ OwnersUnchanged /\ AuctionsUnchanged

\* C12 as stated: every operation, instantiate included, issues at most one
\* save, and an operation that fails has issued no write at all (no write
\* precedes a point where the operation can still fail).
C12_NoWriteBeforeFailure ==
  last.op # "none" =>
    /\ Len(last.writes) <= 1
    /\ last.result # "Ok" => (last.writes = <<>> /\ storage = prev)

\* C12 as amended: every operation other than instantiate issues at most
\* one save, and none when it fails, so that a failed call leaves the store
\* as it was; instantiate saves the contract version before it validates the
\* deployer and loads OwnerSet, so a failed instantiate has written the
\* contract version (and nothing else), and a successful one has issued
\* three saves: contract version, OwnerSet, OpenAuctions.
C12_WritesPerOperation ==
  /\ last.op \notin {"none", "instantiate"} =>
       /\ Len(last.writes) <= 1
       /\ last.result # "Ok" => (last.writes = <<>> /\ storage = prev)
       /\ last.writes = <<>> => storage = prev
  /\ last.op = "instantiate" =>
       /\ last.writes = IF last.result = "Ok"
                        THEN <<"contract_info", "owners", "auctions">>
                        ELSE <<"contract_info">>
       /\ last.result # "Ok" => (OwnersUnchanged /\ AuctionsUnchanged)

\* remove_owner has failed after it had emptied its copy of the OwnerSet,
\* and has saved nothing
C12_Witness ==
  /\ instantiated
  /\ last.op = "remove_owner" /\ last.result = "NoOwner"
  /\ last.writes = <<>> /\ storage = prev

\* C13: the three queries take no caller, so that nothing authenticates
\* them; in every reachable state a query leaves the whole store (OwnerSet
\* and OpenAuctions included) unchanged, saves nothing and emits no outbound
\* message; and open_auctions succeeds whenever OpenAuctions is persisted
\* (always, once instantiate has succeeded) and then returns exactly the
\* persisted sequence.
C13_QueriesReadOnly ==
  /\ last.op \in Queries =>
       /\ last.sender = None
       /\ storage = prev
       /\ last.writes = <<>>
       /\ last.messages = <<>>
  /\ last.op = "open_auctions" =>
       /\ instantiated => last.result = "Ok"
       /\ last.result = "Ok" <=> prev.auctions # None
       /\ last.result = "Ok" => Get(last.data).auctions = Get(prev.auctions)

\* open_auctions has answered on a contract whose OwnerSet holds several
\* owners
C13_Witness ==
  /\ instantiated
  /\ last.op = "open_auctions" /\ last.result = "Ok"
  /\ Len(Owners(storage)) >= 2
  /\ Get(last.data).auctions = <<>>

\* the sum of the amounts of denomination d over a sequence of coins
RECURSIVE CoinsTotal(_, _)
CoinsTotal(coins, d) ==
  IF coins = <<>> THEN 0
  ELSE (IF Head(coins).denom = d THEN Head(coins).amount ELSE 0)
       + CoinsTotal(Tail(coins), d)

\* the sum of the amounts of denomination d over all reward entries of all
\* records
RECURSIVE RecordsTotal(_, _)
RecordsTotal(records, d) ==
  IF records = <<>> THEN 0
  ELSE CoinsTotal(Head(records).rewards, d) + RecordsTotal(Tail(records), d)

\* C14: outstanding_rewards succeeds exactly when the host's query does, and
\* then returns a balance that holds one entry per denomination and no
\* zero-amount entry, the amount of every denomination being the sum of its
\* amounts over all reward entries of all records of the host's response
\* (no entry when that sum is 0), and returns total_records equal to the
\* host's pagination total, or 0 when the response has no pagination or no
\* total.
C14_OutstandingRewards ==
  last.op = "outstanding_rewards" =>
    LET reply == Get(last.host)
    IN /\ last.result = "Ok" <=> reply # None
       /\ last.result = "Ok" =>
            LET response == Get(reply)
                balance == Get(last.data).rewards_balance
                page == response.pagination
            IN /\ \A i, j \in 1..Len(balance) :
                    balance[i].denom = balance[j].denom => i = j
               /\ \A i \in 1..Len(balance) :
                    balance[i].amount # 0 /\ balance[i].denom \in Denoms
               /\ \A d \in Denoms :
                    CoinsTotal(balance, d) = RecordsTotal(response.records, d)
               /\ Get(last.data).total_records =
                    IF page = None THEN 0
                    ELSE IF Get(page).total = None THEN 0
                    ELSE Get(Get(page).total)

\* two records carry the same denomination, a third denomination entry is
\* absent, and the host reports a total: the balance holds the merged entry
C14_Witness ==
  /\ last.op = "outstanding_rewards" /\ last.result = "Ok"
  /\ LET response == Get(Get(last.host))
     IN /\ Len(response.records) = 2
        /\ \A i \in 1..2 : /\ Len(response.records[i].rewards) = 1
                           /\ response.records[i].rewards[1].denom = 1
                           /\ response.records[i].rewards[1].amount = 1
        /\ response.pagination = Some([total |-> Some(2)])
  /\ Get(last.data).rewards_balance = <<[denom |-> 1, amount |-> 2]>>
  /\ Get(last.data).total_records = 2

\* C15 as stated: on an instantiated contract, in add_owner and
\* remove_owner the caller is validated and checked for membership before
\* the second address is examined: a well-formed non-member who supplies a
\* malformed second address gets Unauthorized, and a malformed caller gets
\* InvalidAddress whatever the second address is.
C15_AuthorizationBeforeSecondAddress ==
  (instantiated /\ HasSecondAddress /\ HasOwners(prev)) =>
    /\ (addr_validate(Sender) /\ ~Member(prev, Sender) /\ ~addr_validate(Arg))
       => last.result = "Unauthorized"
    /\ ~addr_validate(Sender) => last.result = "InvalidAddress"

\* C15 as amended: in add_owner and remove_owner both addresses are
\* validated before OwnerSet is loaded and membership is checked: a malformed
\* caller or a malformed second address gets InvalidAddress whatever the
\* membership of the caller, and a non-member gets Unauthorized only when
\* both addresses are well-formed.
C15_ValidationBeforeAuthorization ==
  HasSecondAddress =>
    /\ (~addr_validate(Sender) \/ ~addr_validate(Arg))
       => last.result = "InvalidAddress"
    /\ (addr_validate(Sender) /\ addr_validate(Arg) /\ HasOwners(prev)
        /\ ~Member(prev, Sender))
       => last.result = "Unauthorized"
    /\ last.result = "Unauthorized"
       => (addr_validate(Sender) /\ addr_validate(Arg))

\* on an instantiated contract, a well-formed non-member has supplied a
\* malformed second address and got InvalidAddress
C15_Witness ==
  /\ instantiated
  /\ HasSecondAddress
  /\ addr_validate(Sender) /\ ~Member(prev, Sender) /\ ~addr_validate(Arg)
  /\ last.result = "InvalidAddress"

\* the call made in this step is a privileged call whose caller has been
\* removed from the OwnerSet and not been added again since
CallByRemovedOwner ==
  /\ last'.op \in Privileged
  /\ Get(last'.sender) \in removed

\* C16 as stated: once remove_owner has removed X, every later privileged
\* call by X fails with Unauthorized until a member's add_owner names X.
C16_RemovedOwnerStep ==
  CallByRemovedOwner => last'.result = "Unauthorized"

C16_RemovedOwnerUnauthorized == [][C16_RemovedOwnerStep]_vars

\* C16 as amended: authorization is decided on the OwnerSet persisted at the
\* time of each call: an address that remove_owner has removed (itself
\* included) is no member until a successful add_owner names it, and until
\* then every privileged call it makes fails, leaves the store unchanged
\* and emits no message; the error is InvalidAddress when the call is an
\* add_owner or remove_owner with a malformed second address, and
\* Unauthorized otherwise.
C16_RemovedOwnerRejectedStep ==
  /\ \A x \in removed' : ~Member(storage', x)
  /\ CallByRemovedOwner =>
       /\ last'.result =
            IF last'.op \in {"add_owner", "remove_owner"}
               /\ ~addr_validate(Get(last'.arg))
            THEN "InvalidAddress" ELSE "Unauthorized"
       /\ storage' = storage
       /\ last'.messages = <<>>
       /\ removed' = removed

C16_RemovedOwnerRejected == [][C16_RemovedOwnerRejectedStep]_vars

\* a removed owner, not the deployer, has called a privileged operation of
\* a contract that still has several owners, and was refused
C16_Witness ==
  /\ last.op \in Privileged
  /\ Sender \in removed
  /\ Some(Sender) # deployer
  /\ last.result = "Unauthorized"
  /\ storage = prev
  /\ Len(Owners(storage)) >= 2

\* an entry other than the target of the last call
NotTarget(v) == v # Arg

\* C17: a successful add_owner of a non-member yields the previous sequence
\* with the candidate appended as its last element, and a successful
\* remove_owner yields the previous sequence with every entry equal to the
\* target deleted, the remaining entries keeping their relative order.
C17_OrderMaintained ==
  /\ (last.op = "add_owner" /\ last.result = "Ok" /\ ~Member(prev, Arg))
     => Owners(storage) = Owners(prev) \o <<Arg>>
  /\ (last.op = "remove_owner" /\ last.result = "Ok")
     => Owners(storage) = SelectSeq(Owners(prev), NotTarget)

\* the middle one of three owners has been removed
C17_Witness ==
  /\ last.op = "remove_owner" /\ last.result = "Ok"
  /\ Len(Owners(prev)) = 3 /\ Owners(prev)[2] = Arg
  /\ Owners(storage) = <<Owners(prev)[1], Owners(prev)[3]>>

\* C18: the successful instantiate leaves OwnerSet = [deployer]; after it,
\* a call changes the persisted OwnerSet only if it is a successful
\* add_owner or remove_owner made by an address that was a member when it
\* was called, and no call changes OpenAuctions; a member that was no member
\* before the call is the candidate of such an add_owner.
C18_OwnerSetChangesOnlyByMembers ==
  /\ (last.op = "instantiate" /\ last.result = "Ok") =>
       /\ deployer = last.sender
       /\ Owners(storage) = <<Get(deployer)>>
  /\ (instantiated /\ last.op # "instantiate") =>
       /\ AuctionsUnchanged
       /\ ~OwnersUnchanged =>
            /\ last.op \in {"add_owner", "remove_owner"}
            /\ last.result = "Ok"
            /\ Member(prev, Sender)
       /\ \A a \in Addrs :
            (Member(storage, a) /\ ~Member(prev, a)) =>
              /\ last.op = "add_owner" /\ last.result = "Ok"
              /\ Some(a) = last.arg
              /\ Member(prev, Sender)

\* a member that is not the deployer has set the payout address, and the
\* collections are what they were
C18_Witness ==
  /\ instantiated
  /\ last.op = "update_rewards_address" /\ last.result = "Ok"
  /\ last.sender # deployer
  /\ OwnersUnchanged /\ AuctionsUnchanged
  /\ Len(Owners(storage)) >= 2

\* C19: for an OwnerSet S, a member m and a well-formed address X that is
\* not in S, add_owner(m, X) succeeds and makes X a member, and
\* remove_owner(m, X) called right after it succeeds and leaves the
\* persisted OwnerSet equal to S, elements and order.
C19_Step ==
  /\ (/\ last'.op = "add_owner"
      /\ Member(storage, Get(last'.sender))
      /\ addr_validate(Get(last'.arg))
      /\ ~Member(storage, Get(last'.arg)))
     => /\ last'.result = "Ok"
        /\ Member(storage', Get(last'.arg))
  /\ (/\ last.op = "add_owner" /\ last.result = "Ok"
      /\ Member(prev, Sender)
      /\ ~Member(prev, Arg)
      /\ last'.op = "remove_owner"
      /\ last'.sender = last.sender
      /\ last'.arg = last.arg)
     => /\ last'.result = "Ok"
        /\ storage'.owners = prev.owners

C19_AddRemoveRoundTrip == [][C19_Step]_vars

\* a member of a set of two owners has removed the last entry of a set of
\* three, which it was not itself
C19_Witness ==
  /\ last.op = "remove_owner" /\ last.result = "Ok"
  /\ Member(storage, Sender)
  /\ Len(Owners(storage)) = 2
  /\ Owners(prev) = Owners(storage) \o <<Arg>>
  /\ Arg \in removed

\* remove_owner called by m for each address of targets in turn, stopping at
\* the first call that fails
RECURSIVE RemoveEach(_, _, _)
RemoveEach(store, m, targets) ==
  IF targets = <<>> THEN [ok |-> TRUE, storage |-> store]
  ELSE LET out == remove_owner(store, m, Head(targets))
       IN IF out.result # "Ok" THEN [ok |-> FALSE, storage |-> out.storage]
          ELSE RemoveEach(out.storage, m, Tail(targets))

\* every privileged operation called by a is refused on store
RefusedEverywhere(store, a) ==
  \A t \in ValidAddrs :
    /\ update_rewards_address(store, a, t).result = "Unauthorized"
    /\ withdraw_rewards(store, a).result = "Unauthorized"
    /\ add_owner(store, a, t).result = "Unauthorized"
    /\ remove_owner(store, a, t).result = "Unauthorized"

\* C20: in every reachable state any member m can remove every other member,
\* the deployer and the owner that added m included: each removal succeeds,
\* m is then the only owner and the removed addresses are refused by every
\* privileged operation; the one removal of a well-formed address that m is
\* refused is the one that would leave the OwnerSet empty.
C20_AnyOwnerCanRemoveAllOthers ==
  HasOwners(storage) =>
    \A m \in ValidAddrs :
      Member(storage, m) =>
        LET others == SelectSeq(Owners(storage), LAMBDA v : v # m)
            end == RemoveEach(storage, m, others)
        IN /\ end.ok
           /\ end.storage.owners = Some(<<m>>)
           /\ end.storage.auctions = storage.auctions
           /\ \A x \in ValidAddrs :
                (Member(storage, x) /\ x # m) => RefusedEverywhere(end.storage, x)
           /\ remove_owner(end.storage, m, m).result = "NoOwner"
           /\ \A t \in ValidAddrs :
                remove_owner(storage, m, t).result =
                  IF \A i \in 1..Len(Owners(storage)) : Owners(storage)[i] = t
                  THEN "NoOwner" ELSE "Ok"

\* an owner that is not the deployer has removed the deployer and is the
\* only owner left
C20_Witness ==
  /\ instantiated
  /\ last.op = "remove_owner" /\ last.result = "Ok"
  /\ last.arg = deployer
  /\ last.sender # deployer
  /\ Owners(storage) = <<Sender>>
  /\ Len(Owners(prev)) = 2

====
